---- MODULE Spec2Model ----
(***************************************************************************)
(* Model of the meme description pipeline: MemeAgentCrew                   *)
(* .run_satire_generation and ._get_partial_results of main.py and         *)
(* main_new.py, and extract_keywords_from_translation of main.py.          *)
(*                                                                         *)
(* A text is a sequence of one-character strings.  The literal             *)
(* "**Key Visual Keywords:**" of the regular expression is the single      *)
(* symbol "M".                                                             *)
(***************************************************************************)
EXTENDS Integers, Sequences, FiniteSets, TLC

VARIABLES variant, pc, status, output, context, crewTasks, idx,
          translation_result, keywords, image_search_tasks, image_results,
          keyword, files, widx, results, result, injections,
          io_error, partial_write, task_keyword,
          caller, env_keys, input_keyword, run_started, team_result,
          kwInput, kwOutput, kwPc,
          valPc, article, triggered, verdict, batch, batchOutcome,
          runs, disk, clock,
          imgPc, imgInput, imgSearch, imgCalls, imgResult

vars == <<variant, pc, status, output, context, crewTasks, idx,
          translation_result, keywords, image_search_tasks, image_results,
          keyword, files, widx, results, result, injections,
          io_error, partial_write, task_keyword,
          caller, env_keys, input_keyword, run_started, team_result,
          kwInput, kwOutput, kwPc,
          valPc, article, triggered, verdict, batch, batchOutcome,
          runs, disk, clock,
          imgPc, imgInput, imgSearch, imgCalls, imgResult>>

pipelineVars == <<variant, pc, status, output, context, crewTasks, idx,
                  translation_result, keywords, image_search_tasks,
                  image_results, keyword, files, widx, results, result,
                  injections, io_error, partial_write, task_keyword>>

\* state of generate_satire_for_team around the run
teamVars == <<caller, env_keys, input_keyword, run_started, team_result>>

kwVars == <<kwInput, kwOutput, kwPc>>

\* one candidate article and one batch under the extraction instruction
valVars == <<valPc, article, triggered, verdict, batch, batchOutcome>>

\* several runs of run_satire_generation and the ./outputs directory they
\* share
runVars == <<runs, disk, clock>>

\* one call of generate_image_for_team
imgVars == <<imgPc, imgInput, imgSearch, imgCalls, imgResult>>

\* variables the pipeline actions never touch
auxVars == <<kwVars, valVars, runVars, imgVars>>

(***************************************************************************)
(* Bounds                                                                  *)
(***************************************************************************)
\* longest text over the full alphabet given to the keyword extraction
MaxLen == 4
\* longest bracket content of a text "M[ ... ]" given to the extraction
MaxBody == 7
\* largest number of candidate articles in one extraction batch
MaxBatch == 7
\* last second of the clock read by datetime.now()
MaxClock == 2

(***************************************************************************)
(* extract_keywords_from_translation                                       *)
(***************************************************************************)
\* keywords[:3]
MaxKeywords == 3

\* characters matched by \s and removed by str.strip()
Whitespace == {" ", "\n"}

\* a value that is not a string (re.search raises TypeError on it)
NonString == <<"<non-string>">>

FallbackKeywords == << <<"Korean Issue">>, <<"News">>, <<"Trending">> >>

Range(s) == {s[i] : i \in DOMAIN s}

\* text[a..b], empty when a > b
Slice(text, a, b) == [i \in 1..(b - a + 1) |-> text[a + i - 1]]

\* position of the "[" that follows the marker at position i after \s*, or 0
BracketAfter(text, i) ==
  LET js == {j \in (i + 1)..Len(text) :
               /\ text[j] = "["
               /\ \A m \in (i + 1)..(j - 1) : text[m] \in Whitespace}
  IN IF js = {} THEN 0 ELSE CHOOSE j \in js : TRUE

\* position of the "]" that ends the lazy group (.*?) opened at j, or 0:
\* the first "]" after j, with no newline before it ('.' excludes newline)
CloseAfter(text, j) ==
  LET ks == {k \in (j + 1)..Len(text) :
               /\ text[k] = "]"
               /\ \A m \in (j + 1)..(k - 1) : text[m] \notin {"]", "\n"}}
  IN IF ks = {} THEN 0 ELSE CHOOSE k \in ks : TRUE

\* start positions at which the pattern matches
MatchStarts(text) ==
  {i \in 1..Len(text) :
     /\ text[i] = "M"
     /\ BracketAfter(text, i) # 0
     /\ CloseAfter(text, BracketAfter(text, i)) # 0}

HasMatch(text) == MatchStarts(text) # {}

\* re.search(pattern, text).group(1): the group of the leftmost match
Group1(text) ==
  LET i == CHOOSE a \in MatchStarts(text) : \A b \in MatchStarts(text) : a <= b
      j == BracketAfter(text, i)
  IN Slice(text, j + 1, CloseAfter(text, j) - 1)

\* s.split(',')
RECURSIVE Split(_)
Split(s) ==
  LET cs == {i \in 1..Len(s) : s[i] = ","}
  IN IF cs = {} THEN <<s>>
     ELSE LET c == CHOOSE a \in cs : \A b \in cs : a <= b
          IN <<Slice(s, 1, c - 1)>> \o Split(Slice(s, c + 1, Len(s)))

\* s.strip(chars)
Strip(s, chars) ==
  LET keep == {i \in 1..Len(s) : s[i] \notin chars}
  IN IF keep = {} THEN <<>>
     ELSE LET lo == CHOOSE a \in keep : \A b \in keep : a <= b
              hi == CHOOSE a \in keep : \A b \in keep : a >= b
          IN Slice(s, lo, hi)

\* k.strip().strip('"').strip("'")
StripEntry(k) == Strip(Strip(Strip(k, Whitespace), {"\""}), {"'"})

\* [k for k in keywords if k]
RECURSIVE NonEmpty(_)
NonEmpty(ks) ==
  IF ks = <<>> THEN <<>>
  ELSE IF Head(ks) = <<>> THEN NonEmpty(Tail(ks))
  ELSE <<Head(ks)>> \o NonEmpty(Tail(ks))

\* ks[:n]
Take(ks, n) == IF Len(ks) <= n THEN ks ELSE SubSeq(ks, 1, n)

ParsedKeywords(text) ==
  LET parts == Split(Group1(text))
  IN Take(NonEmpty([i \in 1..Len(parts) |-> StripEntry(parts[i])]), MaxKeywords)

\* mutant: no fallback list when the pattern does not match
extract_keywords_NoFallback(t) ==
  IF t = NonString THEN FallbackKeywords
  ELSE IF HasMatch(t) THEN ParsedKeywords(t)
  ELSE <<>>

extract_keywords_from_translation(t) ==
  IF t = NonString THEN FallbackKeywords
  ELSE IF HasMatch(t) THEN ParsedKeywords(t)
  ELSE FallbackKeywords


(***************************************************************************)
(* The quality filters of the extraction instruction                       *)
(* (create_extraction_task of main.py).  An article is the record of the   *)
(* quantities the filters read.  The instruction is carried out by the     *)
(* extraction agent; it fixes no order among the filters and names no      *)
(* rejection reason beyond the wording of each filter.                     *)
(***************************************************************************)
\* "repeats more than 50 times consecutively"
CharStopLimit == 50
\* "repeats more than 20 times consecutively"
CharSkipLimit == 20
\* "more than 80% identical characters"
IdenticalPctLimit == 80
\* "any 2-character pattern repeats more than 30 times"
BigramLimit == 30
\* "the same 3-character sequence appears more than 100 times"
TrigramLimit == 100
\* "content length exceeds 10,000 characters without meaningful variation"
LengthStopLimit == 10000
\* "shorter than 100 characters"
MinLength == 100
\* "longer than 5000 characters but has less than 50 unique characters"
DiversityLength == 5000
UniqueFloor == 50
\* "same exact sentence repeats 3+ times"
SentenceRepeatLimit == 3
\* "less than 5 different complete Korean sentences"
MinSentences == 5
\* "repeated HTML tag names ... more than 15 times"
TagLimit == 15
\* "more than 30% non-Korean characters"
NonKoreanPctLimit == 30
\* "If more than 80% of articles fail extraction"
BatchFailPct == 80

\* the filters in the order the instruction lists them
RuleNames ==
  <<"char_repetition_stop", "length_stop", "trigram_repetition",
    "char_repetition", "identical_characters", "bigram_repetition",
    "too_short", "low_diversity", "sentence_repetition",
    "insufficient_sentences", "markup_noise", "wrong_language">>

\* the filters under "CRITICAL INFINITE LOOP PREVENTION: IMMEDIATELY STOP"
StopRules == {"char_repetition_stop", "length_stop", "trigram_repetition"}

\* the filters on consecutive repetition of one character
CharRepetitionRules == {"char_repetition_stop", "char_repetition"}

Violates(rule, a) ==
  CASE rule = "char_repetition_stop"   -> a.run > CharStopLimit
    [] rule = "length_stop"            -> a.len > LengthStopLimit /\ a.unique < UniqueFloor
    [] rule = "trigram_repetition"     -> a.trigram > TrigramLimit
    [] rule = "char_repetition"        -> a.run > CharSkipLimit
    [] rule = "identical_characters"   -> a.identicalPct > IdenticalPctLimit
    [] rule = "bigram_repetition"      -> a.bigram > BigramLimit
    [] rule = "too_short"              -> a.len < MinLength
    [] rule = "low_diversity"          -> a.len > DiversityLength /\ a.unique < UniqueFloor
    [] rule = "sentence_repetition"    -> a.sentenceRepeat >= SentenceRepeatLimit
    [] rule = "insufficient_sentences" -> a.sentences < MinSentences
    [] rule = "markup_noise"           -> a.tags > TagLimit
    [] rule = "wrong_language"         -> a.nonKoreanPct > NonKoreanPctLimit

ViolatedRules(a) == {r \in Range(RuleNames) : Violates(r, a)}

\* the reason a filter gives, in the words of the validator's checks
ReasonOf(rule) ==
  CASE rule = "char_repetition_stop" -> "char_repetition"
    [] rule = "length_stop"          -> "low_diversity"
    [] OTHER                         -> rule

\* the filters that may decide the rejection: an immediate-stop filter
\* when one is violated, otherwise any violated filter
DecidingRules(a) ==
  IF ViolatedRules(a) \cap StopRules # {}
  THEN ViolatedRules(a) \cap StopRules
  ELSE ViolatedRules(a)

Verdicts(a) ==
  IF ViolatedRules(a) = {} THEN {"accepted"}
  ELSE {ReasonOf(r) : r \in DecidingRules(a)}

\* "If more than 80% of articles fail extraction, report extraction system
\* failure"
MayReportFailure(n, r) == r * 100 > BatchFailPct * n

\* "Consider task complete if at least 1 article is successfully extracted"
MayComplete(n, r) == n - r >= 1 \/ ~MayReportFailure(n, r)

BatchOutcomes(n, r) ==
  {o \in {"failure", "success"} :
     \/ o = "failure" /\ MayReportFailure(n, r)
     \/ o = "success" /\ MayComplete(n, r)}

\* articles with their quantities at both sides of every threshold; a
\* repetition count cannot exceed what the length allows
Articles ==
  {a \in [len : {99, 100, 5001, 10001}, run : {20, 21, 50, 51},
          bigram : {30, 31}, trigram : {100, 101}, unique : {49, 50},
          identicalPct : {80, 81}, sentenceRepeat : {2, 3},
          sentences : {4, 5}, tags : {15, 16}, nonKoreanPct : {30, 31}] :
     /\ a.run <= a.len
     /\ a.bigram + 1 <= a.len
     /\ a.trigram + 2 <= a.len}

Batches == {b \in [n : 0..MaxBatch, r : 0..MaxBatch] : b.r <= b.n}

NoArticle ==
  [len |-> 0, run |-> 0, bigram |-> 0, trigram |-> 0, unique |-> 0,
   identicalPct |-> 0, sentenceRepeat |-> 0, sentences |-> 0, tags |-> 0,
   nonKoreanPct |-> 0]

NoBatch == [n |-> 0, r |-> 0]

\* no article and no batch is under validation
ValIdle ==
  /\ valPc = "off"
  /\ article = NoArticle
  /\ triggered = {}
  /\ verdict = "none"
  /\ batch = NoBatch
  /\ batchOutcome = "none"

\* no concurrent runs are modelled
RunsIdle ==
  /\ runs = <<>>
  /\ disk = <<>>
  /\ clock = 0

(***************************************************************************)
(* Stages (crewAI Task objects) of one run                                 *)
(***************************************************************************)
search_task      == <<"search", 0>>
extraction_task  == <<"extraction", 0>>
translation_task == <<"translation", 0>>
description_task == <<"description", 0>>
satire_task      == <<"satire", 0>>
tokenomics_task  == <<"tokenomics", 0>>
summary_task     == <<"summary", 0>>

\* create_image_search_task(kw) for the i-th extracted keyword
ImageTask(i) == <<"image", i>>

IsImageTask(t) == t[1] = "image"

BaseTasks == {search_task, extraction_task, translation_task,
              description_task, satire_task, tokenomics_task, summary_task}

\* the list handed to _get_partial_results, and its task_names
SalvageTasks == <<search_task, extraction_task, translation_task,
                  description_task, satire_task, tokenomics_task, summary_task>>

task_names == <<"search", "extraction", "translation", "description",
                "satire", "tokenomics", "summary">>

Variants == {"main", "main_new"}

\* the keyword argument of run_satire_generation
InputKeyword == <<"input keyword">>

\* a local variable that is not bound yet
Unset == <<"<unset>">>

\* task.context as assigned before the first kickoff
SatireContext(v) ==
  IF v = "main" THEN {translation_task} ELSE {extraction_task}

InitialSummaryContext(v) ==
  IF v = "main" THEN {}
  ELSE {translation_task, description_task, tokenomics_task}

InitialContext(v) ==
  [t \in BaseTasks |->
     CASE t = search_task      -> {}
       [] t = extraction_task  -> {search_task}
       [] t = translation_task -> {extraction_task}
       [] t = description_task -> {translation_task}
       [] t = satire_task      -> SatireContext(v)
       [] t = tokenomics_task  -> {satire_task}
       [] t = summary_task     -> InitialSummaryContext(v)]

\* mutant: the description stage is put into the first crew of main.py
FirstCrewTasks_WithDescription(v) ==
  IF v = "main"
  THEN <<search_task, extraction_task, translation_task, description_task>>
  ELSE <<search_task, extraction_task, translation_task, description_task,
         satire_task, tokenomics_task, summary_task>>

\* Crew(tasks=...) of the first kickoff
FirstCrewTasks(v) ==
  IF v = "main"
  THEN <<search_task, extraction_task, translation_task>>
  ELSE <<search_task, extraction_task, translation_task, description_task,
         satire_task, tokenomics_task, summary_task>>

\* mutant: the image tasks are not added to the context of the summary
SummaryContext_NoImages(imgs) ==
  {translation_task, description_task, tokenomics_task}

\* summary_task.context = [translation, description, tokenomics] + image tasks
SummaryContext(imgs) ==
  {translation_task, description_task, tokenomics_task} \cup Range(imgs)

\* mutant: tokenomics is listed before the satire stage it depends on
RemainingCrewTasks_TokenomicsFirst(imgs) ==
  imgs \o <<description_task, tokenomics_task, satire_task, summary_task>>

\* mutant: the satire stage is listed before the description stage
RemainingCrewTasks_SatireFirst(imgs) ==
  imgs \o <<satire_task, description_task, tokenomics_task, summary_task>>

\* mutant: the summary stage is listed before the image stages
RemainingCrewTasks_SummaryFirst(imgs) ==
  <<description_task, satire_task, tokenomics_task, summary_task>> \o imgs

\* remaining_crew tasks = image_search_tasks + [description, satire, ...]
RemainingCrewTasks(imgs) ==
  imgs \o <<description_task, satire_task, tokenomics_task, summary_task>>

\* files written by a completed run, in order
FileLabels(v) ==
  IF v = "main"
  THEN <<"korean_issue_summary", "website_description",
         "launchpad_description", "image_urls">>
  ELSE <<"korean_issue_summary", "website_description",
         "launchpad_description">>

PartialLabel == "partial_launchpad_description"

(***************************************************************************)
(* Outputs the generation service can return                               *)
(***************************************************************************)
TranslationOutputs ==
  { <<"a">>,
    <<"M", "a">>,
    <<"[", "a", ",", "b", "]">>,
    <<"M", "a", "[", "a", "]">>,
    <<"M", "[", "a", ",", "b">>,
    <<"M", "[", "]">>,
    <<"M", "[", " ", ",", " ", "]">>,
    <<"M", "[", "\"", "a", "\"", "]">>,
    <<"a", "M", " ", "[", "a", ",", " ", "b", "]", "a">>,
    <<"M", "[", "a", ",", "b", ",", "c", "]">>,
    <<"M", "[", "a", ",", "b", ",", "c", ",", "d", "]">> }

ImageOutputs == {"json with image_url", "json without image_url", "not json"}

SummaryOutputs == {"json", "prose then json"}

\* what the extraction agent returns: the instruction asks for validated
\* articles only, and nothing in the code checks the answer
ExtractionOutputs ==
  {"validated articles", "includes an article violating a threshold"}

StageOutputs(t) ==
  IF t = translation_task THEN TranslationOutputs
  ELSE IF t = extraction_task THEN ExtractionOutputs
  ELSE IF IsImageTask(t) THEN ImageOutputs
  ELSE IF t = summary_task THEN SummaryOutputs
  ELSE {"text"}

HasOutput(t) == t \in DOMAIN output /\ output[t] # <<>>

Raw(t) == output[t][1]

CrewPcs == {"initial_crew", "remaining_crew", "crew"}

FirstCrewPc(v) == IF v = "main" THEN "initial_crew" ELSE "crew"

(***************************************************************************)
(* run_satire_generation                                                   *)
(***************************************************************************)
NoResult == [returned |-> FALSE]

\* return None
NoneResult == [returned |-> TRUE, value |-> "None"]

DictResult(d) == [returned |-> TRUE, value |-> "dict", dict |-> d]

\* generate_image_for_team is not called
ImgIdle ==
  /\ imgPc = "off"
  /\ imgInput = <<>>
  /\ imgSearch = <<>>
  /\ imgCalls = <<>>
  /\ imgResult = NoResult

\* os.getenv of the three credentials: TRUE when the variable is set
KeyConfigs == [serper : BOOLEAN, gemini : BOOLEAN, google : BOOLEAN]

AllKeys == [serper |-> TRUE, gemini |-> TRUE, google |-> TRUE]

\* input_data.get("keyword", "")
InputKeywords == {"present", "empty", "missing"}

\* run_satire_generation is called directly (main) with the crew built, or
\* through generate_satire_for_team, which builds the crew itself.  The
\* task objects exist from the call of run_satire_generation on
\* (run_started); before it status, output and context hold the values the
\* tasks are created with.
Init ==
  /\ variant \in Variants
  /\ caller \in {"direct", "team"}
  /\ IF caller = "direct"
     THEN /\ pc = FirstCrewPc(variant)
          /\ env_keys = AllKeys
          /\ input_keyword = "present"
          /\ run_started = TRUE
     ELSE /\ pc = "team_construct"
          /\ env_keys \in KeyConfigs
          /\ input_keyword \in InputKeywords
          /\ run_started = FALSE
  /\ team_result = NoResult
  /\ status = [t \in BaseTasks |-> "pending"]
  /\ output = [t \in BaseTasks |-> <<>>]
  /\ context = InitialContext(variant)
  /\ crewTasks = FirstCrewTasks(variant)
  /\ idx = 1
  /\ translation_result = Unset
  /\ keywords = <<>>
  /\ image_search_tasks = <<>>
  /\ image_results = <<>>
  /\ keyword = InputKeyword
  /\ files = {}
  /\ widx = 1
  /\ results = <<>>
  /\ result = NoResult
  /\ injections = 0
  /\ io_error = FALSE
  /\ partial_write = "not attempted"
  /\ task_keyword = <<>>
  /\ kwInput = Unset
  /\ kwOutput = <<>>
  /\ kwPc = "off"
  /\ ValIdle
  /\ RunsIdle
  /\ ImgIdle

\* Crew.kickoff, sequential process: the next task of the crew starts
StartTask ==
  /\ pc \in CrewPcs
  /\ idx <= Len(crewTasks)
  /\ status[crewTasks[idx]] = "pending"
  /\ status' = [status EXCEPT ![crewTasks[idx]] = "running"]
  /\ UNCHANGED <<variant, pc, output, context, crewTasks, idx,
                 translation_result, keywords, image_search_tasks,
                 image_results, keyword, files, widx, results, result,
                 injections, io_error, partial_write, task_keyword,
                 teamVars, auxVars>>

\* the running task returns an output
TaskSucceeds ==
  /\ pc \in CrewPcs
  /\ idx <= Len(crewTasks)
  /\ status[crewTasks[idx]] = "running"
  /\ \E out \in StageOutputs(crewTasks[idx]) :
       output' = [output EXCEPT ![crewTasks[idx]] = <<out>>]
  /\ status' = [status EXCEPT ![crewTasks[idx]] = "succeeded"]
  /\ idx' = idx + 1
  /\ UNCHANGED <<variant, pc, context, crewTasks, translation_result,
                 keywords, image_search_tasks, image_results, keyword, files,
                 widx, results, result, injections, io_error, partial_write, task_keyword,
                 teamVars, auxVars>>

\* mutant: the failure is swallowed and the crew goes on with the next task
TaskFails_Continue ==
  /\ pc \in CrewPcs
  /\ idx <= Len(crewTasks)
  /\ status[crewTasks[idx]] = "running"
  /\ status' = [status EXCEPT ![crewTasks[idx]] = "failed"]
  /\ idx' = idx + 1
  /\ UNCHANGED <<variant, pc, output, context, crewTasks,
                 translation_result, keywords, image_search_tasks,
                 image_results, keyword, files, widx, results, result,
                 injections, io_error, partial_write, task_keyword,
                 teamVars, auxVars>>

\* the running task raises: kickoff raises into the except clause
TaskFails ==
  /\ pc \in CrewPcs
  /\ idx <= Len(crewTasks)
  /\ status[crewTasks[idx]] = "running"
  /\ status' = [status EXCEPT ![crewTasks[idx]] = "failed"]
  /\ pc' = "except"
  /\ UNCHANGED <<variant, output, context, crewTasks, idx,
                 translation_result, keywords, image_search_tasks,
                 image_results, keyword, files, widx, results, result,
                 injections, io_error, partial_write, task_keyword,
                 teamVars, auxVars>>

\* kickoff returns after the last task of the crew
KickoffReturns ==
  /\ pc \in CrewPcs
  /\ idx > Len(crewTasks)
  /\ pc' = IF pc = "initial_crew" THEN "extract" ELSE "collect"
  /\ UNCHANGED <<variant, status, output, context, crewTasks, idx,
                 translation_result, keywords, image_search_tasks,
                 image_results, keyword, files, widx, results, result,
                 injections, io_error, partial_write, task_keyword,
                 teamVars, auxVars>>

\* translation_result = translation_task.output.raw; keywords = extract...
ExtractKeywords ==
  /\ pc = "extract"
  /\ translation_result' = Raw(translation_task)
  /\ keywords' = extract_keywords_from_translation(Raw(translation_task))
  /\ pc' = "create"
  /\ UNCHANGED <<variant, status, output, context, crewTasks, idx,
                 image_search_tasks, image_results, keyword, files, widx,
                 results, result, injections, io_error, partial_write, task_keyword,
                 teamVars, auxVars>>

\* [self.create_image_search_task(kw) for kw in keywords]
NewImageTasks(kws) == [i \in 1..Len(kws) |-> ImageTask(i)]

\* mutant: an image task takes the summary as its context
ImageContext_Summary(t) == {summary_task}

\* context of a task made by create_image_search_task
ImageContext(t) == {}

CreateImageTasks ==
  /\ pc = "create"
  /\ image_search_tasks' = NewImageTasks(keywords)
  /\ LET new == Range(NewImageTasks(keywords))
         all == DOMAIN status \cup new
     IN /\ status' = [t \in all |-> IF t \in new THEN "pending" ELSE status[t]]
        /\ output' = [t \in all |-> IF t \in new THEN <<>> ELSE output[t]]
        /\ context' = [t \in all |->
                         IF t \in new THEN ImageContext(t) ELSE context[t]]
  /\ task_keyword' = [t \in Range(NewImageTasks(keywords)) |-> keywords[t[2]]]
  /\ injections' = injections + 1
  /\ pc' = "assign"
  /\ UNCHANGED <<variant, crewTasks, idx, translation_result, keywords,
                 image_results, keyword, files, widx, results, result, io_error, partial_write,
                 teamVars, auxVars>>

\* summary_task.context = ...; remaining_crew = Crew(tasks=...)
AssignSummaryContext ==
  /\ pc = "assign"
  /\ context' = [context EXCEPT
                   ![summary_task] = SummaryContext(image_search_tasks)]
  /\ crewTasks' = RemainingCrewTasks(image_search_tasks)
  /\ idx' = 1
  /\ pc' = "remaining_crew"
  /\ UNCHANGED <<variant, status, output, translation_result, keywords,
                 image_search_tasks, image_results, keyword, files, widx,
                 results, result, injections, io_error, partial_write, task_keyword,
                 teamVars, auxVars>>


\* mutant: every parse error is stored with the number of the first keyword
ImageResult_ErrorOnFirst(i, raw) ==
  CASE raw = "json with image_url"    -> <<"image_url", i>>
    [] raw = "json without image_url" -> <<"no_result", i>>
    [] OTHER                          -> <<"parse_error", 1>>

\* json.loads(output_text) and parsed_data.get("image_url", ...) of task i
ImageResult(i, raw) ==
  CASE raw = "json with image_url"    -> <<"image_url", i>>
    [] raw = "json without image_url" -> <<"no_result", i>>
    [] OTHER                          -> <<"parse_error", i>>

\* the loop variable of "for i, (task, keyword) in enumerate(zip(...))"
\* rebinds the local name keyword
KeywordAfterLoop(kw, kws) == IF kws = <<>> THEN kw ELSE kws[Len(kws)]

\* the results are read from the Task objects
CollectResults ==
  /\ pc = "collect"
  /\ IF variant = "main"
     THEN /\ image_results' =
               [i \in {j \in 1..Len(image_search_tasks) :
                         HasOutput(image_search_tasks[j])} |->
                  ImageResult(i, Raw(image_search_tasks[i]))]
          /\ keyword' = KeywordAfterLoop(keyword, keywords)
          /\ UNCHANGED translation_result
     ELSE /\ translation_result' = Raw(translation_task)
          /\ UNCHANGED <<image_results, keyword>>
  /\ pc' = "makedirs"
  /\ UNCHANGED <<variant, status, output, context, crewTasks, idx, keywords,
                 image_search_tasks, files, widx, results, result, injections,
                 io_error, partial_write, task_keyword,
                 teamVars, auxVars>>

\* os.makedirs("./outputs", exist_ok=True); an OSError goes to the except
MakeDirs ==
  /\ pc = "makedirs"
  /\ \E ok \in BOOLEAN :
       /\ pc' = IF ok THEN "write" ELSE "except"
       /\ io_error' = ~ok
  /\ widx' = 1
  /\ UNCHANGED <<variant, status, output, context, crewTasks, idx,
                 translation_result, keywords, image_search_tasks,
                 image_results, keyword, files, results, result, injections,
                 partial_write, task_keyword,
                 teamVars, auxVars>>

\* f"./outputs/{label}_{keyword}_{timestamp}"
FileName(label, kw) == [label |-> label, keyword |-> kw]

\* with open(filename, "w") as f: f.write(...)
WriteFile ==
  /\ pc = "write"
  /\ widx <= Len(FileLabels(variant))
  /\ files' = files \cup {FileName(FileLabels(variant)[widx], keyword)}
  /\ widx' = widx + 1
  /\ UNCHANGED <<variant, pc, status, output, context, crewTasks, idx,
                 translation_result, keywords, image_search_tasks,
                 image_results, keyword, results, result, injections, io_error, partial_write, task_keyword,
                 teamVars, auxVars>>

\* mutant: a failed write is swallowed and the run goes on
WriteFails_Swallowed ==
  /\ pc = "write"
  /\ widx <= Len(FileLabels(variant))
  /\ io_error' = TRUE
  /\ widx' = widx + 1
  /\ UNCHANGED <<variant, pc, status, output, context, crewTasks, idx,
                 translation_result, keywords, image_search_tasks,
                 image_results, keyword, files, results, result,
                 injections, partial_write, task_keyword, teamVars, auxVars>>

\* open or write raises: control goes to the except clause
WriteFails ==
  /\ pc = "write"
  /\ widx <= Len(FileLabels(variant))
  /\ io_error' = TRUE
  /\ pc' = "except"
  /\ UNCHANGED <<variant, status, output, context, crewTasks, idx,
                 translation_result, keywords, image_search_tasks,
                 image_results, keyword, files, widx, results, result,
                 injections, partial_write, task_keyword,
                 teamVars, auxVars>>

\* the dict returned by a run that reached the end of the try block
CompletedDict ==
  IF variant = "main"
  THEN [json_data |-> Raw(summary_task),
        satire_filename |-> FileName("launchpad_description", keyword),
        satire_content |-> Raw(satire_task),
        image_urls |-> image_results,
        keywords |-> keywords,
        translation_result |-> translation_result]
  ELSE [json_data |-> Raw(summary_task),
        satire_filename |-> FileName("launchpad_description", keyword),
        satire_content |-> Raw(satire_task)]

ReturnCompleted ==
  /\ pc = "write"
  /\ widx > Len(FileLabels(variant))
  /\ result' = DictResult(CompletedDict)
  /\ pc' = "done"
  /\ UNCHANGED <<variant, status, output, context, crewTasks, idx,
                 translation_result, keywords, image_search_tasks,
                 image_results, keyword, files, widx, results, injections,
                 io_error, partial_write, task_keyword,
                 teamVars, auxVars>>

(***************************************************************************)
(* _get_partial_results                                                    *)
(***************************************************************************)
\* results[task_names[i]] = task.output.raw for every task with an output
CollectedNames(tasks) ==
  {task_names[i] : i \in {j \in 1..Len(tasks) : HasOutput(tasks[j])}}

TaskNamed(n) ==
  SalvageTasks[CHOOSE i \in 1..Len(task_names) : task_names[i] = n]

PartialResultsOf(tasks) ==
  [n \in CollectedNames(tasks) |-> Raw(TaskNamed(n))]

\* results.get('summary', None)
GetSummary(res) ==
  IF "summary" \in DOMAIN res THEN <<res["summary"]>> ELSE <<>>

PartialDict(res) ==
  [json_data |-> GetSummary(res),
   satire_filename |-> FileName(PartialLabel, <<>>),
   satire_content |-> res["satire"],
   partial |-> TRUE]

\* mutant: the salvage tests for the summary instead of the satire
WritesPartial_Summary(res) == "summary" \in DOMAIN res

\* if 'satire' in results: the partial file is written
WritesPartial(res) == "satire" \in DOMAIN res

\* the value _get_partial_results returns; writeOk: makedirs, open and
\* write of the partial file all succeed
PartialReturn(res, writeOk) ==
  IF WritesPartial(res) /\ writeOk
  THEN DictResult(PartialDict(res))
  ELSE NoneResult

\* except Exception: return self._get_partial_results([...]) or None
Salvage ==
  /\ pc = "except"
  /\ results' = PartialResultsOf(SalvageTasks)
  /\ \E writeOk \in BOOLEAN :
       /\ result' = PartialReturn(PartialResultsOf(SalvageTasks), writeOk)
       /\ partial_write' =
            IF ~WritesPartial(PartialResultsOf(SalvageTasks))
            THEN "not attempted"
            ELSE IF writeOk THEN "ok" ELSE "failed"
       /\ files' = IF WritesPartial(PartialResultsOf(SalvageTasks)) /\ writeOk
                   THEN files \cup {FileName(PartialLabel, <<>>)}
                   ELSE files
  /\ pc' = "done"
  /\ UNCHANGED <<variant, status, output, context, crewTasks, idx,
                 translation_result, keywords, image_search_tasks,
                 image_results, keyword, widx, injections, io_error,
                 task_keyword, teamVars, auxVars>>

(***************************************************************************)
(* generate_satire_for_team                                                *)
(***************************************************************************)
\* an exception that leaves the function
RaisedResult(e) == [returned |-> FALSE, raised |-> e]

ErrorDict(msg) == [error |-> msg]

\* mutant: the constructor does not call _check_serper_key
ConstructorRaises_NoSerperCheck(keys) == ~(keys.gemini \/ keys.google)

\* MemeAgentCrew.__init__: _check_serper_key() and _get_api_key()
ConstructorRaises(keys) == ~keys.serper \/ ~(keys.gemini \/ keys.google)

\* meme_crew = MemeAgentCrew(), outside every try block
ConstructCrew ==
  /\ pc = "team_construct"
  /\ IF ConstructorRaises(env_keys)
     THEN /\ team_result' = RaisedResult("RuntimeError")
          /\ pc' = "team_done"
     ELSE /\ team_result' = team_result
          /\ pc' = "team_input"
  /\ UNCHANGED <<variant, status, output, context, crewTasks, idx,
                 translation_result, keywords, image_search_tasks,
                 image_results, keyword, files, widx, results, result,
                 injections, io_error, partial_write, task_keyword,
                 caller, env_keys, input_keyword, run_started, auxVars>>

\* mutant: a missing keyword is passed on to the run
KeywordMissing_Never(k) == FALSE

\* if not keyword
KeywordMissing(k) == k \in {"empty", "missing"}

\* keyword = input_data.get("keyword", ""); the run is called with it
ReadInput ==
  /\ pc = "team_input"
  /\ IF KeywordMissing(input_keyword)
     THEN /\ team_result' = DictResult(ErrorDict("no keyword"))
          /\ pc' = "team_done"
          /\ run_started' = run_started
     ELSE /\ team_result' = team_result
          /\ pc' = FirstCrewPc(variant)
          /\ run_started' = TRUE
  /\ UNCHANGED <<variant, status, output, context, crewTasks, idx,
                 translation_result, keywords, image_search_tasks,
                 image_results, keyword, files, widx, results, result,
                 injections, io_error, partial_write, task_keyword,
                 caller, env_keys, input_keyword, auxVars>>

\* return result if result else {"error": ...}
TeamValue(r) ==
  IF r = NoneResult THEN DictResult(ErrorDict("generation failed")) ELSE r

TeamReturn ==
  /\ pc = "done"
  /\ caller = "team"
  /\ team_result' = TeamValue(result)
  /\ pc' = "team_done"
  /\ UNCHANGED <<variant, status, output, context, crewTasks, idx,
                 translation_result, keywords, image_search_tasks,
                 image_results, keyword, files, widx, results, result,
                 injections, io_error, partial_write, task_keyword,
                 caller, env_keys, input_keyword, run_started, auxVars>>

Next ==
  \/ ConstructCrew
  \/ ReadInput
  \/ TeamReturn
  \/ StartTask
  \/ TaskSucceeds
  \/ TaskFails
  \/ KickoffReturns
  \/ ExtractKeywords
  \/ CreateImageTasks
  \/ AssignSummaryContext
  \/ CollectResults
  \/ MakeDirs
  \/ WriteFile
  \/ WriteFails
  \/ ReturnCompleted
  \/ Salvage

Spec == Init /\ [][Next]_vars

(***************************************************************************)
(* A run that can be interrupted.  KeyboardInterrupt (Ctrl-C, SIGINT) and  *)
(* asyncio.CancelledError derive from BaseException, so neither "except    *)
(* Exception" of run_satire_generation nor that of                         *)
(* generate_satire_for_team catches them.                                  *)
(***************************************************************************)
\* positions inside the body of run_satire_generation
RunPcs == CrewPcs \cup {"extract", "create", "assign", "collect", "makedirs",
                        "write", "except"}

\* the interrupt unwinds the call: nothing is collected, written or returned
Interrupt ==
  /\ run_started
  /\ pc \in RunPcs
  /\ result' = RaisedResult("KeyboardInterrupt")
  /\ team_result' = IF caller = "team"
                    THEN RaisedResult("KeyboardInterrupt")
                    ELSE team_result
  /\ pc' = "interrupted"
  /\ UNCHANGED <<variant, status, output, context, crewTasks, idx,
                 translation_result, keywords, image_search_tasks,
                 image_results, keyword, files, widx, results, injections,
                 io_error, partial_write, task_keyword,
                 caller, env_keys, input_keyword, run_started, auxVars>>

NextInterrupt ==
  \/ Next
  \/ Interrupt

SpecInterrupt == Init /\ [][NextInterrupt]_vars

(***************************************************************************)
(* extract_keywords_from_translation applied to bounded inputs             *)
(***************************************************************************)
Alphabet == {"M", "[", "]", ",", " ", "\n", "\"", "'", "a"}

BodyAlphabet == {",", " ", "\"", "'", "a"}

TextsUpTo(chars, n) == UNION {[1..m -> chars] : m \in 0..n}

KwInputs ==
  {NonString}
    \cup TextsUpTo(Alphabet, MaxLen)
    \cup {<<"M", "[">> \o body \o <<"]">> : body \in TextsUpTo(BodyAlphabet, MaxBody)}

InitKw ==
  /\ variant = "main"
  /\ pc = "off"
  /\ caller = "direct"
  /\ env_keys = AllKeys
  /\ input_keyword = "present"
  /\ run_started = FALSE
  /\ team_result = NoResult
  /\ status = [t \in BaseTasks |-> "pending"]
  /\ output = [t \in BaseTasks |-> <<>>]
  /\ context = InitialContext("main")
  /\ crewTasks = FirstCrewTasks("main")
  /\ idx = 1
  /\ translation_result = Unset
  /\ keywords = <<>>
  /\ image_search_tasks = <<>>
  /\ image_results = <<>>
  /\ keyword = InputKeyword
  /\ files = {}
  /\ widx = 1
  /\ results = <<>>
  /\ result = NoResult
  /\ injections = 0
  /\ io_error = FALSE
  /\ partial_write = "not attempted"
  /\ task_keyword = <<>>
  /\ kwInput \in KwInputs
  /\ kwOutput = <<>>
  /\ kwPc = "call"
  /\ ValIdle
  /\ RunsIdle
  /\ ImgIdle

CallExtract ==
  /\ kwPc = "call"
  /\ kwOutput' = extract_keywords_from_translation(kwInput)
  /\ kwPc' = "returned"
  /\ UNCHANGED <<kwInput, pipelineVars, teamVars, valVars, runVars, imgVars>>

NextKw == CallExtract

SpecKw == InitKw /\ [][NextKw]_vars


(***************************************************************************)
(* The extraction instruction applied to one article or one batch          *)
(***************************************************************************)
InitVal ==
  /\ variant = "main"
  /\ pc = "off"
  /\ caller = "direct"
  /\ env_keys = AllKeys
  /\ input_keyword = "present"
  /\ run_started = FALSE
  /\ team_result = NoResult
  /\ status = [t \in BaseTasks |-> "pending"]
  /\ output = [t \in BaseTasks |-> <<>>]
  /\ context = InitialContext("main")
  /\ crewTasks = FirstCrewTasks("main")
  /\ idx = 1
  /\ translation_result = Unset
  /\ keywords = <<>>
  /\ image_search_tasks = <<>>
  /\ image_results = <<>>
  /\ keyword = InputKeyword
  /\ files = {}
  /\ widx = 1
  /\ results = <<>>
  /\ result = NoResult
  /\ injections = 0
  /\ io_error = FALSE
  /\ partial_write = "not attempted"
  /\ task_keyword = <<>>
  /\ kwInput = Unset
  /\ kwOutput = <<>>
  /\ kwPc = "off"
  /\ triggered = {}
  /\ verdict = "none"
  /\ batchOutcome = "none"
  /\ RunsIdle
  /\ ImgIdle
  /\ \/ valPc = "article" /\ article \in Articles /\ batch = NoBatch
     \/ valPc = "batch" /\ article = NoArticle /\ batch \in Batches

\* the agent applies the quality filters to one candidate article
ValidateArticle ==
  /\ valPc = "article"
  /\ triggered' = ViolatedRules(article)
  /\ verdict' \in Verdicts(article)
  /\ valPc' = "validated"
  /\ UNCHANGED <<article, batch, batchOutcome, pipelineVars, teamVars, kwVars,
                 runVars, imgVars>>

\* the agent ends the extraction of a batch of n candidates, r of them
\* rejected
ReportBatch ==
  /\ valPc = "batch"
  /\ batchOutcome' \in BatchOutcomes(batch.n, batch.r)
  /\ valPc' = "reported"
  /\ UNCHANGED <<article, triggered, verdict, batch, pipelineVars, teamVars,
                 kwVars, runVars, imgVars>>

NextVal == ValidateArticle \/ ReportBatch

SpecVal == InitVal /\ [][NextVal]_vars

(***************************************************************************)
(* Two runs of run_satire_generation with different keywords, interleaved. *)
(* The Task objects, crews and results of a run are local to the call; the *)
(* runs share the ./outputs directory and the clock.                       *)
(***************************************************************************)
Runs == {1, 2}

\* the keyword argument of each run
RunKeywords == << <<"input keyword 1">>, <<"input keyword 2">> >>

\* f"./outputs/{label}_{keyword}_{timestamp}" with the timestamp in seconds
FilePath(name, ts) == [name |-> name, timestamp |-> ts]

\* the name of the partial file carries no keyword
PartialFileName == FileName(PartialLabel, <<>>)

\* the file names a completed run writes, with the value its local name
\* keyword has when the names are formatted
CompletedFileNames(v, kw) ==
  {FileName(FileLabels(v)[i], kw) : i \in 1..Len(FileLabels(v))}

\* the value of the local name keyword after the result loop
KeywordAtPersist(v, kw, kws) ==
  IF v = "main" THEN KeywordAfterLoop(kw, kws) ELSE kw

InitRuns ==
  /\ variant \in Variants
  /\ pc = "off"
  /\ caller = "direct"
  /\ env_keys = AllKeys
  /\ input_keyword = "present"
  /\ run_started = FALSE
  /\ team_result = NoResult
  /\ status = [t \in BaseTasks |-> "pending"]
  /\ output = [t \in BaseTasks |-> <<>>]
  /\ context = InitialContext(variant)
  /\ crewTasks = FirstCrewTasks(variant)
  /\ idx = 1
  /\ translation_result = Unset
  /\ keywords = <<>>
  /\ image_search_tasks = <<>>
  /\ image_results = <<>>
  /\ keyword = InputKeyword
  /\ files = {}
  /\ widx = 1
  /\ results = <<>>
  /\ result = NoResult
  /\ injections = 0
  /\ io_error = FALSE
  /\ partial_write = "not attempted"
  /\ task_keyword = <<>>
  /\ kwInput = Unset
  /\ kwOutput = <<>>
  /\ kwPc = "off"
  /\ ValIdle
  /\ ImgIdle
  /\ runs = [r \in Runs |->
               [pc |-> "crews", keyword |-> RunKeywords[r], stamp |-> 0,
                todo |-> {}]]
  /\ disk = <<>>
  /\ clock = 0

\* disk after run r wrote the file at path p
Written(p, r) ==
  [q \in DOMAIN disk \cup {p} |->
     IF q = p
     THEN (IF p \in DOMAIN disk THEN disk[p] ELSE {}) \cup {r}
     ELSE disk[q]]

\* the clock moves on to the next second
Tick ==
  /\ clock < MaxClock
  /\ clock' = clock + 1
  /\ UNCHANGED <<runs, disk, pipelineVars, teamVars, kwVars, valVars, imgVars>>

\* both crews of run r end without an error; the translation was t
RunCompletes(r) ==
  /\ runs[r].pc = "crews"
  /\ \E t \in TranslationOutputs :
       LET kw == KeywordAtPersist(variant, RunKeywords[r],
                                  extract_keywords_from_translation(t))
       IN runs' = [runs EXCEPT ![r] =
                     [pc |-> "persist", keyword |-> kw, stamp |-> clock,
                      todo |-> CompletedFileNames(variant, kw)]]
  /\ UNCHANGED <<disk, clock, pipelineVars, teamVars, kwVars, valVars, imgVars>>

\* a stage of run r raises after the satire stage succeeded
RunRaises(r) ==
  /\ runs[r].pc = "crews"
  /\ runs' = [runs EXCEPT ![r].pc = "salvage"]
  /\ UNCHANGED <<disk, clock, pipelineVars, teamVars, kwVars, valVars, imgVars>>

\* run r writes one of its output files
RunWrites(r) ==
  /\ runs[r].pc = "persist"
  /\ \E name \in runs[r].todo :
       /\ disk' = Written(FilePath(name, runs[r].stamp), r)
       /\ runs' = [runs EXCEPT
                     ![r].todo = runs[r].todo \ {name},
                     ![r].pc = IF runs[r].todo = {name} THEN "done"
                               ELSE "persist"]
  /\ UNCHANGED <<clock, pipelineVars, teamVars, kwVars, valVars, imgVars>>

\* _get_partial_results of run r writes the partial file
RunSalvages(r) ==
  /\ runs[r].pc = "salvage"
  /\ disk' = Written(FilePath(PartialFileName, clock), r)
  /\ runs' = [runs EXCEPT ![r].pc = "done", ![r].stamp = clock]
  /\ UNCHANGED <<clock, pipelineVars, teamVars, kwVars, valVars, imgVars>>

NextRuns ==
  \/ Tick
  \/ \E r \in Runs : RunCompletes(r)
  \/ \E r \in Runs : RunRaises(r)
  \/ \E r \in Runs : RunWrites(r)
  \/ \E r \in Runs : RunSalvages(r)

SpecRuns == InitRuns /\ [][NextRuns]_vars

(***************************************************************************)
(* generate_image_for_team                                                 *)
(***************************************************************************)
\* input_data: whether it is a dict, which keys it has, and the value under
\* 'translation_result' (<<>> when the key is absent)
NoDictInput ==
  [dict |-> FALSE, image_urls |-> FALSE, keywords |-> FALSE,
   translation |-> <<>>]

ImgInputs ==
  {NoDictInput}
    \cup [dict : {TRUE}, image_urls : BOOLEAN, keywords : BOOLEAN,
          translation : {<<>>} \cup
                        {<<t>> : t \in TranslationOutputs \cup {NonString}}]

\* what happens when the search for one keyword is made: the outcomes of
\* serper_image_search, and the call itself raising (the name is bound to
\* the object the tool decorator returns)
SearchOutcomes ==
  {"image found", "no images", "api key missing", "request fails",
   "call raises"}

\* the image_url field of the JSON text serper_image_search returns
SerperImageUrl(o) ==
  CASE o = "api key missing" -> "API key missing"
    [] o = "image found"     -> "image url"
    [] o = "no images"       -> "No image found"
    [] o = "request fails"   -> "Search error: ..."

\* image_results[f"keyword{i+1}"] for a search with outcome o
SearchEntry(i, o) ==
  IF o = "call raises" THEN <<"search_error", i>>
  ELSE <<"image_url", SerperImageUrl(o)>>

PassThrough(in) == in.dict /\ in.image_urls /\ in.keywords

HasTranslation(in) == in.dict /\ in.translation # <<>>

\* the queries searched, in order
ImageCalls(in) ==
  IF ~PassThrough(in) /\ HasTranslation(in)
  THEN extract_keywords_from_translation(in.translation[1])
  ELSE <<>>

\* the dict generate_image_for_team returns
ImageTeamDict(in, search) ==
  IF PassThrough(in)
  THEN [success |-> TRUE,
        keywords |-> "input_data['keywords']",
        result |-> [imgurl |-> "input_data['image_urls']",
                    prompt |-> "integrated"],
        note |-> "collected by the main process"]
  ELSE IF HasTranslation(in)
  THEN [success |-> TRUE,
        keywords |-> ImageCalls(in),
        result |-> [imgurl |-> [i \in 1..Len(ImageCalls(in)) |->
                                  SearchEntry(i, search[i])],
                    prompt |-> "collected"]]
  ELSE [success |-> FALSE, error |-> "invalid input"]

InitImg ==
  /\ variant = "main"
  /\ pc = "off"
  /\ caller = "direct"
  /\ env_keys = AllKeys
  /\ input_keyword = "present"
  /\ run_started = FALSE
  /\ team_result = NoResult
  /\ status = [t \in BaseTasks |-> "pending"]
  /\ output = [t \in BaseTasks |-> <<>>]
  /\ context = InitialContext("main")
  /\ crewTasks = FirstCrewTasks("main")
  /\ idx = 1
  /\ translation_result = Unset
  /\ keywords = <<>>
  /\ image_search_tasks = <<>>
  /\ image_results = <<>>
  /\ keyword = InputKeyword
  /\ files = {}
  /\ widx = 1
  /\ results = <<>>
  /\ result = NoResult
  /\ injections = 0
  /\ io_error = FALSE
  /\ partial_write = "not attempted"
  /\ task_keyword = <<>>
  /\ kwInput = Unset
  /\ kwOutput = <<>>
  /\ kwPc = "off"
  /\ ValIdle
  /\ RunsIdle
  /\ imgPc = "call"
  /\ imgInput \in ImgInputs
  /\ imgSearch \in [1..MaxKeywords -> SearchOutcomes]
  /\ imgCalls = <<>>
  /\ imgResult = NoResult

CallImageTeam ==
  /\ imgPc = "call"
  /\ imgCalls' = ImageCalls(imgInput)
  /\ imgResult' = DictResult(ImageTeamDict(imgInput, imgSearch))
  /\ imgPc' = "returned"
  /\ UNCHANGED <<imgInput, imgSearch, pipelineVars, teamVars, kwVars, valVars,
                 runVars>>

NextImg == CallImageTeam

SpecImg == InitImg /\ [][NextImg]_vars

(***************************************************************************)
(* Properties                                                              *)
(***************************************************************************)
Tasks == DOMAIN status

Started(t) == status[t] \in {"running", "succeeded", "failed"}

AllSucceeded == \A t \in Tasks : status[t] = "succeeded"

IsDict == result.returned /\ result.value = "dict"

IsCompleted ==
  IsDict /\ "partial" \notin DOMAIN result.dict /\ "error" \notin DOMAIN result.dict

IsPartial == IsDict /\ "partial" \in DOMAIN result.dict /\ result.dict.partial

\* the run went through the except clause
Raised == pc = "done" /\ ~IsCompleted

RECURSIVE ReachFrom(_, _)
ReachFrom(S, n) ==
  IF n = 0 THEN S
  ELSE ReachFrom(S \cup UNION {context[t] : t \in S \cap DOMAIN context}, n - 1)

\* the stages t depends on, directly or through other stages
Ancestors(t) == ReachFrom(context[t], Cardinality(DOMAIN context))

\* C1: a stage starts only after every stage of its context has succeeded
C1_DependenciesSucceedFirst ==
  \A t \in Tasks : Started(t) => \A d \in context[t] : status[d] = "succeeded"

C1_Witness ==
  /\ variant = "main"
  /\ status[summary_task] = "running"
  /\ Len(image_search_tasks) = 3

\* C2: after a stage failed no stage depending on it is executed, and a
\* succeeded stage keeps its status and its output in every step
C2_NoDependentRuns ==
  \A t \in Tasks :
    (\E f \in Ancestors(t) : status[f] = "failed") => status[t] = "pending"

C2_SucceededKept ==
  /\ \A t \in Tasks :
       status[t] = "succeeded" =>
         /\ t \in DOMAIN status'
         /\ status'[t] = "succeeded"
         /\ output'[t] = output[t]
  /\ (\E f \in Tasks : status[f] = "failed") =>
       /\ status' = status
       /\ output' = output

C2_FailureCascadesForward == [](C2_NoDependentRuns) /\ [][C2_SucceededKept]_vars

C2_Witness ==
  /\ pc = "done"
  /\ status[satire_task] = "failed"
  /\ status[tokenomics_task] = "pending"
  /\ status[summary_task] = "pending"
  /\ HasOutput(translation_task)

\* C3 as stated: the run returns a completed result exactly when every stage
\* succeeded
C3_CompletedIffAllSucceeded ==
  pc = "done" => (IsCompleted <=> AllSucceeded)

\* C3 as amended: the run returns a completed result exactly when every
\* stage succeeded and the output directory and every output file were written
\* without an error
C3_CompletedIffAllSucceededAndPersisted ==
  pc = "done" => (IsCompleted <=> (AllSucceeded /\ ~io_error))

C3_Witness == pc = "done" /\ AllSucceeded /\ io_error /\ IsPartial

WalkIndex(n) == CHOOSE i \in 1..Len(task_names) : task_names[i] = n

\* the first stage of the walk that has no output, or 0
FirstWithoutOutput ==
  LET gaps == {i \in 1..Len(SalvageTasks) : ~HasOutput(SalvageTasks[i])}
  IN IF gaps = {} THEN 0 ELSE CHOOSE i \in gaps : \A j \in gaps : i <= j

\* C5: what the salvage collects and returns comes only from stages before
\* the first stage of the walk that has no output
C5_CollectsOnlyBeforeFirstGap ==
  (Raised /\ FirstWithoutOutput # 0) =>
    /\ \A n \in DOMAIN results : WalkIndex(n) < FirstWithoutOutput
    /\ IsPartial =>
         /\ WalkIndex("satire") < FirstWithoutOutput
         /\ result.dict.json_data = <<>>

C5_Witness ==
  /\ Raised
  /\ DOMAIN results = {"search", "extraction", "translation", "description",
                       "satire"}
  /\ status[tokenomics_task] = "failed"
  /\ IsPartial

SecondPhaseTasks == Tasks \ {search_task, extraction_task, translation_task}

\* C6: in main.py the image stages are injected at most once, only after the
\* translation succeeded and before any second-phase stage starts, exactly
\* once in a run whose translation succeeded, and never otherwise
C6_InjectionOnceAfterTranslation ==
  variant = "main" =>
    /\ injections <= 1
    /\ injections = 1 => status[translation_task] = "succeeded"
    /\ \A t \in SecondPhaseTasks : Started(t) => injections = 1
    /\ status[translation_task] # "succeeded" =>
         /\ injections = 0
         /\ Tasks = BaseTasks
    /\ (pc = "done" /\ status[translation_task] = "succeeded") => injections = 1

C6_Witness ==
  /\ variant = "main"
  /\ injections = 1
  /\ pc = "remaining_crew"
  /\ \A t \in SecondPhaseTasks : status[t] = "pending"
  /\ Len(image_search_tasks) = 2

ImageTasksOf(S) == {t \in S : IsImageTask(t)}

\* the summary context has been assigned
Injected == variant = "main" /\ injections = 1 /\ pc # "assign"

\* C7: after injection there is one image stage per keyword, in keyword
\* order, each one in the context of the summary and none depending on a
\* stage other than the translation
C7_OneImageStagePerKeyword ==
  Injected =>
    /\ Len(image_search_tasks) = Len(keywords)
    /\ Cardinality(ImageTasksOf(Tasks)) = Len(keywords)
    /\ ImageTasksOf(Tasks) = Range(image_search_tasks)
    /\ \A i \in 1..Len(keywords) :
         /\ task_keyword[image_search_tasks[i]] = keywords[i]
         /\ image_search_tasks[i] \in context[summary_task]
         /\ context[image_search_tasks[i]] \subseteq {translation_task}
         /\ \A j \in 1..Len(keywords) :
              image_search_tasks[i] = image_search_tasks[j] => i = j

C7_Witness ==
  /\ Injected
  /\ Len(keywords) = 2
  /\ keywords[1] # keywords[2]
  /\ status[summary_task] = "succeeded"

\* C8: extract_keywords_from_translation returns between 1 and 3 keywords
C8_BetweenOneAndThreeKeywords ==
  kwPc = "returned" => (Len(kwOutput) >= 1 /\ Len(kwOutput) <= 3)

\* a text holding "M", optional whitespace and a bracket pair
ContainsMarker(text) ==
  \E i, j, k \in 1..Len(text) :
    /\ i < j /\ j < k
    /\ text[i] = "M" /\ text[j] = "[" /\ text[k] = "]"
    /\ \A m \in (i + 1)..(j - 1) : text[m] \in {" ", "\n"}

\* C9: when the translation holds no keyword marker the keywords are the
\* fallback list in its order and exactly 3 image stages are injected
C9_FallbackWithoutMarker ==
  (injections = 1 /\ ~ContainsMarker(Raw(translation_task))) =>
    /\ keywords = << <<"Korean Issue">>, <<"News">>, <<"Trending">> >>
    /\ image_search_tasks = <<ImageTask(1), ImageTask(2), ImageTask(3)>>
    /\ ImageTasksOf(Tasks) = {ImageTask(1), ImageTask(2), ImageTask(3)}
    /\ \A i \in 1..3 : task_keyword[ImageTask(i)] = keywords[i]

C9_Witness ==
  /\ injections = 1
  /\ ~ContainsMarker(Raw(translation_task))
  /\ "M" \in Range(Raw(translation_task))
  /\ status[ImageTask(3)] = "succeeded"

Acyclic == \A t \in DOMAIN context : t \notin Ancestors(t)

\* C10: the context relation is acyclic in every state and points to
\* existing stages only, and every edge a step adds points to a stage that
\* existed before the step and is pending or succeeded
C10_EdgesToExisting ==
  \A t \in DOMAIN context' :
    \A d \in context'[t] \ (IF t \in DOMAIN context THEN context[t] ELSE {}) :
      /\ d \in Tasks
      /\ status[d] \in {"pending", "succeeded"}

C10_ContextWellFormed ==
  /\ Acyclic
  /\ DOMAIN context = Tasks
  /\ \A t \in Tasks : context[t] \subseteq Tasks

C10_AcyclicAppendOnly == [](C10_ContextWellFormed) /\ [][C10_EdgesToExisting]_vars

C10_Witness ==
  /\ pc = "remaining_crew"
  /\ ImageTask(3) \in context[summary_task]
  /\ tokenomics_task \in context[summary_task]


Escaped == "raised" \in DOMAIN team_result

TeamReturnedDict == team_result.returned /\ team_result.value = "dict"

\* C11: generate_satire_for_team never lets an exception escape
C11_NoExceptionEscapes == ~Escaped

\* the keys a success record of generate_satire_for_team carries
SuccessKeys == {"json_data", "satire_filename", "satire_content", "keywords",
                "translation_result"}

\* C12: a result of main.py's generate_satire_for_team is an error record
\* or carries every key of the success record, partial or not
C12_ResultCarriesAllKeys ==
  (variant = "main" /\ pc = "team_done" /\ ~Escaped) =>
    /\ TeamReturnedDict
    /\ \/ DOMAIN team_result.dict = {"error"}
       \/ SuccessKeys \subseteq DOMAIN team_result.dict

\* C13: a stage that takes the extraction output as context starts only
\* with an extraction output in which every article passed the validation
C13_OnlyValidatedInContext ==
  \A t \in Tasks :
    (Started(t) /\ extraction_task \in context[t]) =>
      Raw(extraction_task) = "validated articles"

\* C17: a summary output that is not pure JSON never gives a completed
\* result
C17_MalformedSummaryFails ==
  (pc = "done" /\ HasOutput(summary_task)
     /\ Raw(summary_task) = "prose then json") => ~IsCompleted

MissingCredentials ==
  \/ ~env_keys.serper
  \/ (~env_keys.gemini /\ ~env_keys.google)

\* C18: with SERPER_API_KEY missing, or GEMINI_API_KEY and GOOGLE_API_KEY
\* both missing, the constructor raises before the run starts: no stage is
\* created or executed, no file is written and no result record is returned
C18_MissingCredentialsAreFatal ==
  (caller = "team" /\ MissingCredentials) =>
    /\ pc \in {"team_construct", "team_done"}
    /\ ~run_started
    /\ \A t \in Tasks : status[t] = "pending" /\ output[t] = <<>>
    /\ files = {}
    /\ result = NoResult
    /\ ~team_result.returned
    /\ pc = "team_done" => Escaped

C18_Witness ==
  /\ pc = "team_done"
  /\ env_keys.serper
  /\ ~env_keys.gemini
  /\ ~env_keys.google
  /\ Escaped

\* C19: the summary stage starts only when every image stage has reached a
\* terminal state
C19_SummaryAfterImages ==
  Started(summary_task) =>
    \A t \in ImageTasksOf(Tasks) : status[t] \in {"succeeded", "failed", "skipped"}

C19_Witness ==
  /\ status[summary_task] = "running"
  /\ Cardinality(ImageTasksOf(Tasks)) = 2


\* C14: the extraction stage reports a system failure exactly when more
\* than 80% of the batch is rejected, and otherwise succeeds
C14_FailureIffOver80Percent ==
  valPc = "reported" =>
    (batchOutcome = "failure" <=> 5 * batch.r > 4 * batch.n)

\* the validator's checks in their numbered order, with their thresholds
ClaimedChecks(a) ==
  << <<"too_short", a.len < 100>>,
     <<"char_repetition", a.run > 20>>,
     <<"bigram_repetition", a.bigram > 30>>,
     <<"trigram_repetition", a.trigram > 100>>,
     <<"low_diversity", a.len > 10000 /\ a.unique < 50>>,
     <<"sentence_repetition", a.sentenceRepeat >= 3>>,
     <<"insufficient_sentences", a.sentences < 5>>,
     <<"markup_noise", a.tags > 15>>,
     <<"wrong_language", a.nonKoreanPct > 30>> >>

ClaimedVerdict(a) ==
  LET cs == ClaimedChecks(a)
      hit == {i \in 1..Len(cs) : cs[i][2]}
  IN IF hit = {} THEN "accepted"
     ELSE cs[CHOOSE i \in hit : \A j \in hit : i <= j][1]

\* C15: the rejection reason is that of the lowest-numbered violated check
C15_FirstMatchWins ==
  valPc = "validated" => verdict = ClaimedVerdict(article)

\* C16: every filter on consecutive character repetition rejects exactly
\* the articles whose longest run exceeds 20
C16_CharThresholdIs20 ==
  valPc = "validated" =>
    \A r \in CharRepetitionRules : (r \in triggered <=> article.run > 20)


\* C20: two runs started with different keywords never write the same
\* output file path
C20_NoSharedFilePath ==
  \A p \in DOMAIN disk : Cardinality(disk[p]) <= 1


\* C21: the keyword in the name of every file a run writes is the keyword
\* the run was called with
C21_FileNamesCarryInputKeyword ==
  \A f \in files : f.keyword = InputKeyword

\* C22: an interrupted run whose satire stage had succeeded yields a
\* partial result made by the salvage step
C22_InterruptedRunIsSalvaged ==
  (pc = "interrupted" /\ HasOutput(satire_task)) =>
    /\ IsPartial
    /\ results = PartialResultsOf(SalvageTasks)

\* the stages that come after the satire stage
AfterSatire == {tokenomics_task, summary_task}

FailedTasks == {t \in Tasks : status[t] = "failed"}

\* C23: when a stage up to and including satire fails, the run returns
\* nothing and generate_satire_for_team returns an error dict; a partial
\* result is returned only when satire succeeded and the failure came after
\* it (tokenomics, summary or the file writes)
C23_PartialOnlyAfterSatire ==
  /\ (pc \in {"done", "team_done"} /\ FailedTasks \ AfterSatire # {}) =>
       /\ result = NoneResult
       /\ pc = "team_done" =>
            team_result = DictResult(ErrorDict("generation failed"))
  /\ IsPartial =>
       /\ status[satire_task] = "succeeded"
       /\ FailedTasks \subseteq AfterSatire
       /\ FailedTasks # {} \/ io_error

C23_Witness ==
  /\ pc = "team_done"
  /\ status[description_task] = "failed"
  /\ HasOutput(translation_task)
  /\ team_result = DictResult(ErrorDict("generation failed"))

\* C24: the second crew starts only from a step that verified the stage
\* graph to be acyclic
C24_AcyclicityReverified ==
  [][(pc' = "remaining_crew" /\ pc # "remaining_crew")
       => pc = "verify acyclicity"]_vars

\* C25: a stage that ended never changes its status again, a started stage
\* is never pending again, no stage starts once a stage has failed, and a
\* failure leads to the except clause and from there to the return
C25_NoRetry ==
  [][/\ \A t \in Tasks :
          /\ status[t] \in {"succeeded", "failed"} => status'[t] = status[t]
          /\ status[t] = "running" => status'[t] # "pending"
     /\ FailedTasks # {} =>
          \A t \in Tasks : status'[t] = "running" => status[t] = "running"
     /\ (\E t \in Tasks : status[t] # "failed" /\ status'[t] = "failed")
          => pc' = "except"
     /\ pc = "except" => pc' = "done"]_vars

C25_Witness ==
  /\ pc = "done"
  /\ status[translation_task] = "failed"
  /\ status[search_task] = "succeeded"
  /\ \A t \in Tasks \ {search_task, extraction_task, translation_task} :
       status[t] = "pending"

CredentialsPresent ==
  env_keys.serper /\ (env_keys.gemini \/ env_keys.google)

\* C26: with the credentials present and no keyword in the input,
\* generate_satire_for_team returns an error dict, no stage is created or
\* started and no file is written
C26_MissingKeywordRunsNothing ==
  (caller = "team" /\ CredentialsPresent
     /\ input_keyword \in {"empty", "missing"}) =>
    /\ pc \in {"team_construct", "team_input", "team_done"}
    /\ ~run_started
    /\ files = {}
    /\ \A t \in Tasks : status[t] = "pending" /\ ~HasOutput(t)
    /\ pc = "team_done" => team_result = DictResult(ErrorDict("no keyword"))

C26_Witness ==
  /\ pc = "team_done"
  /\ CredentialsPresent
  /\ input_keyword = "empty"
  /\ team_result = DictResult(ErrorDict("no keyword"))

\* the result loop of main.py has run
ImagesCollected ==
  variant = "main" /\ (pc \in {"makedirs", "write"} \/ io_error \/ IsCompleted)

\* C28: the image_urls map has one entry per image stage, numbered by its
\* keyword; the entry of keyword i is parse_error_i exactly when the output
\* of image stage i is not JSON, whatever the other outputs are, and a
\* parse failure does not keep the run from completing
C28_ImageResultsIndependent ==
  ImagesCollected =>
    /\ DOMAIN image_results = 1..Len(keywords)
    /\ \A i \in DOMAIN image_results :
         /\ image_results[i][2] = i
         /\ image_results[i][1] = "parse_error"
              <=> Raw(image_search_tasks[i]) = "not json"
         /\ image_results[i][1] = "image_url"
              <=> Raw(image_search_tasks[i]) = "json with image_url"
    /\ (pc = "done" /\ ~io_error) =>
         /\ IsCompleted
         /\ result.dict.image_urls = image_results

C28_Witness ==
  /\ pc = "done"
  /\ IsCompleted
  /\ Len(keywords) = 2
  /\ image_results[1] = <<"parse_error", 1>>
  /\ image_results[2] = <<"image_url", 2>>


\* characters the cleaning of a keyword is said to remove at both ends
Surrounding == Whitespace \cup {"\"", "'"}

\* C27: when the pattern matches, the keywords are the first three
\* non-empty entries of the bracket content, in order, each without
\* whitespace and quote characters at its ends
C27_CleanedFirstThree ==
  (kwPc = "returned" /\ kwInput # NonString /\ HasMatch(kwInput)) =>
    LET parts == Split(Group1(kwInput))
        cleaned == [i \in 1..Len(parts) |-> Strip(parts[i], Surrounding)]
    IN kwOutput = Take(NonEmpty(cleaned), 3)

\* C29: generate_image_for_team returns a dict with a boolean success; an
\* input with image_urls and keywords is passed through without a search;
\* otherwise an input with translation_result gives one entry per extracted
\* keyword, search_error_i for each keyword whose search failed; any other
\* input gives success = False with an error
C29_ImageTeamResult ==
  imgPc = "returned" =>
    /\ imgResult.returned /\ imgResult.value = "dict"
    /\ imgResult.dict.success \in BOOLEAN
    /\ PassThrough(imgInput) =>
         /\ imgResult.dict.success
         /\ imgCalls = <<>>
    /\ (~PassThrough(imgInput) /\ HasTranslation(imgInput)) =>
         /\ imgResult.dict.success
         /\ DOMAIN imgResult.dict.result.imgurl =
              1..Len(imgResult.dict.keywords)
         /\ \A i \in DOMAIN imgResult.dict.result.imgurl :
              imgSearch[i] \in {"request fails", "call raises"} =>
                imgResult.dict.result.imgurl[i][1] = "search_error"
    /\ (~PassThrough(imgInput) /\ ~HasTranslation(imgInput)) =>
         /\ ~imgResult.dict.success
         /\ "error" \in DOMAIN imgResult.dict

====
